---- MODULE Spec2Model ----
(***************************************************************************)
(* Model of the `test` subcommand of cli/src/forge.rs: the bootstrap of    *)
(* the execution backend in main() and the run/report/exit pipeline of     *)
(* test().                                                                 *)
(*                                                                         *)
(* Option<T> is a sequence of length 0 (None) or 1 (Some(x)).              *)
(* A HashMap is a sequence of entries in the order its iterator yields     *)
(* them; std's HashMap hashes with per-instance random keys, so that order *)
(* is an arbitrary permutation fixed when the map is built.  The order in  *)
(* which the orchestrator discovered contracts and tests is the order of   *)
(* ContractNames and TestNames.                                            *)
(* U256 is narrowed to WordBits bits (TLC integers are 32 bits wide).      *)
(***************************************************************************)
EXTENDS Integers, Sequences, FiniteSets, TLC

\* ---------------------------------------------------------------- bounds
MaxTests == 3
MaxLogs == 2
WordBits == 4

VARIABLES
    evm_type, fork_url, json, verbosity, allow_failure,
    pc, fetches, vicinity, backend, evm,
    exit_code, results, i, j, stdout, status

opts == <<evm_type, fork_url, json, verbosity, allow_failure>>
boot == <<fetches, vicinity, backend, evm>>
rep == <<exit_code, results, i, j, stdout>>
vars == <<opts, pc, boot, rep, status>>

\* ------------------------------------------------------------- constants
VerbosityThreshold == 1
MainErrStatus == 1
ExitWidth == 256

None == <<>>
Some(x) == <<x>>
IsSome(o) == Len(o) = 1
Unwrap(o) == o[1]

U256_MAX == 2 ^ WordBits - 1

FAUCET_ACCOUNT == "faucet"

ContractNames == <<"Foo", "Bar">>
TestNames == <<"testAdd", "testSub", "testMul", "testDiv", "testMod">>

GoodUrl == "http://localhost:8545"
BadUrl == "localhost 8545"
ForkUrls == {None, Some(GoodUrl), Some(BadUrl)}

\* verbosity is only ever compared with the threshold: one level at it, one above
Verbosities == VerbosityThreshold .. (VerbosityThreshold + 1)

RangeOf(s) == {s[k] : k \in DOMAIN s}

\* --------------------------------------------------------------- ledger
DefaultAccount == [balance |-> 0]
EmptyState == [a \in {} |-> DefaultAccount]

\* backend.state_mut().entry(k).or_insert_with(Default::default)
OrInsertDefault(state, k) ==
    IF k \in DOMAIN state THEN state
    ELSE [a \in DOMAIN state \cup {k} |->
            IF a = k THEN DefaultAccount ELSE state[a]]

FundFaucet_Add(state) ==
    [OrInsertDefault(state, FAUCET_ACCOUNT) EXCEPT
        ![FAUCET_ACCOUNT].balance = (@ + U256_MAX) % (2 ^ WordBits)]

\* let faucet = ...entry(*FAUCET_ACCOUNT).or_insert_with(..); faucet.balance = U256::MAX
FundFaucet(state) ==
    [OrInsertDefault(state, FAUCET_ACCOUNT) EXCEPT ![FAUCET_ACCOUNT].balance = U256_MAX]

\* Provider::try_from(url): the URL must parse
UrlParses(url) == url = GoodUrl

\* env.evmodin_state(): the host built from the caller's environment
EvmOdinHosts == {EmptyState, [a \in {FAUCET_ACCOUNT} |-> [balance |-> 1]]}

\* the balance an executor reads for an account of its ledger
BalanceOf(state, a) == IF a \in DOMAIN state THEN state[a].balance ELSE 0

\* the process status the parent observes for exit(code)
ExitStatus(code) == code % ExitWidth

\* ------------------------------------------------------------ TestResult
Logs(n) == [k \in 1 .. n |-> "log" \o ToString(k)]

TestResults ==
    [success : BOOLEAN,
     reason : {None, Some("underflow")},
     counterexample : {None, Some("x=1")},
     gas_used : {None, Some(21000)},
     logs : {Logs(n) : n \in 0 .. MaxLogs}]

PassResult ==
    [success |-> TRUE, reason |-> None, counterexample |-> None,
     gas_used |-> Some(21000), logs |-> Logs(1)]

FailResult ==
    [success |-> FALSE, reason |-> Some("underflow"), counterexample |-> None,
     gas_used |-> Some(21000), logs |-> Logs(MaxLogs)]

BasicResults == {PassResult, FailResult}

\* ------------------------------------------------------------- ResultSet
Perms(n) == {p \in [1 .. n -> 1 .. n] : \A a, b \in 1 .. n : p[a] = p[b] => a = b}

\* the maps of n tests, as their iterators yield them
TestMaps(n, shapes) ==
    {[k \in 1 .. n |-> [name |-> TestNames[p[k]], result |-> r[k]]] :
        p \in Perms(n), r \in [1 .. n -> shapes]}

ContractEntries(n, shapes) ==
    {[name |-> c, tests |-> tm] : c \in RangeOf(ContractNames), tm \in TestMaps(n, shapes)}

\* the maps runner.test can return, as their iterators yield them
ResultSets ==
    {<<>>}
    \cup {<<e>> : e \in ContractEntries(1, TestResults)}
    \cup {<<e>> : e \in UNION {ContractEntries(n, BasicResults) : n \in 0 .. MaxTests}}
    \cup UNION {UNION {{<<p[1], p[2]>> :
                           p \in {q \in ContractEntries(n1, BasicResults)
                                          \X ContractEntries(n2, BasicResults) :
                                      q[1].name # q[2].name}} :
                         n2 \in 0 .. (MaxTests - n1)} :
                  n1 \in 0 .. MaxTests}

\* ------------------------------------------------------------- rendering
ESC == "\\x1B"
Green == ESC \o "[32m"
Red == ESC \o "[31m"
Reset == ESC \o "[0m"

\* Colour::<c>.paint(txt), as Display writes it
Paint(colour, txt) == colour \o txt \o Reset

FailText_Swapped(result) ==
    IF IsSome(result.reason) /\ IsSome(result.counterexample)
      THEN "[FAIL. Reason: " \o Unwrap(result.reason) \o ". Counterexample: "
             \o Unwrap(result.counterexample) \o "]"
    ELSE IF IsSome(result.counterexample)
      THEN "[FAIL. Reason: " \o Unwrap(result.counterexample) \o "]"
    ELSE IF IsSome(result.reason)
      THEN "[FAIL. Counterexample: " \o Unwrap(result.reason) \o "]"
    ELSE "[FAIL]"

\* match (&result.reason, &result.counterexample) { ... }
FailText(result) ==
    IF IsSome(result.reason) /\ IsSome(result.counterexample)
      THEN "[FAIL. Reason: " \o Unwrap(result.reason) \o ". Counterexample: "
             \o Unwrap(result.counterexample) \o "]"
    ELSE IF IsSome(result.counterexample)
      THEN "[FAIL. Counterexample: " \o Unwrap(result.counterexample) \o "]"
    ELSE IF IsSome(result.reason)
      THEN "[FAIL. Reason: " \o Unwrap(result.reason) \o "]"
    ELSE "[FAIL]"

StatusText(result) ==
    IF result.success THEN Paint(Green, "[PASS]") ELSE Paint(Red, FailText(result))

GasText(result) ==
    IF IsSome(result.gas_used) THEN ToString(Unwrap(result.gas_used)) ELSE "[fuzztest]"

SummaryText(name, result) ==
    StatusText(result) \o " " \o name \o " (gas: " \o GasText(result) \o ")"

Term_Plural(n) == IF n >= 1 THEN "tests" ELSE "test"

\* if tests.len() > 1 { "tests" } else { "test" }
Term(n) == IF n > 1 THEN "tests" ELSE "test"

HeaderText(contract_name, n) ==
    "Running " \o ToString(n) \o " " \o Term(n) \o " for " \o contract_name

Line(kind, c, t, text) == [kind |-> kind, c |-> c, t |-> t, text |-> text]

\* if i > 0 { println!() }; if !tests.is_empty() { println!("Running ...") }
HeaderLines(idx, contract_name, tests) ==
    (IF idx > 0 THEN <<Line("blank", contract_name, "", "")>> ELSE <<>>)
    \o (IF Len(tests) # 0
          THEN <<Line("header", contract_name, "", HeaderText(contract_name, Len(tests)))>>
          ELSE <<>>)

\* the exit code after the summary line of one test
ExitCodeAfter(code, result) == IF result.success THEN code ELSE -1

SummaryLines_HideAllowed(contract_name, name, result) ==
    IF allow_failure /\ ~result.success THEN <<>>
    ELSE <<Line("summary", contract_name, name, SummaryText(name, result))>>

\* println!("{} {} (gas: {})", status, name, gas)
SummaryLines(contract_name, name, result) ==
    <<Line("summary", contract_name, name, SummaryText(name, result))>>

LogLines(contract_name, name, logs) ==
    [k \in 1 .. Len(logs) |-> Line("log", contract_name, name, "  " \o logs[k])]

DetailBlock(contract_name, name, result) ==
    <<Line("detail", contract_name, name,
           (IF result.success THEN "Success" ELSE "Failure") \o ": " \o name),
      Line("blank", contract_name, name, "")>>
    \o LogLines(contract_name, name, result.logs)
    \o <<Line("blank", contract_name, name, "")>>

RECURSIVE DetailBlocks(_, _)
DetailBlocks(contract_name, tests) ==
    IF tests = <<>> THEN <<>>
    ELSE DetailBlock(contract_name, Head(tests).name, Head(tests).result)
           \o DetailBlocks(contract_name, Tail(tests))

VerbosityExceeds_OffByOne(v) == v >= VerbosityThreshold

\* verbosity > 1
VerbosityExceeds(v) == v > VerbosityThreshold

\* if verbosity > 1 { println!(); for (name, result) in tests { ... } }
VerboseLines(v, contract_name, tests) ==
    IF VerbosityExceeds(v)
      THEN <<Line("blank", contract_name, "", "")>> \o DetailBlocks(contract_name, tests)
      ELSE <<>>

\* serde_json::to_string(&results)
JsonString(s) == "\"" \o s \o "\""
JsonOption(o) == IF IsSome(o) THEN JsonString(Unwrap(o)) ELSE "null"

RECURSIVE JsonJoin(_)
JsonJoin(items) ==
    IF items = <<>> THEN ""
    ELSE IF Len(items) = 1 THEN Head(items)
    ELSE Head(items) \o "," \o JsonJoin(Tail(items))

JsonResult(r) ==
    "{\"success\":" \o (IF r.success THEN "true" ELSE "false")
    \o ",\"reason\":" \o JsonOption(r.reason)
    \o ",\"counterexample\":" \o JsonOption(r.counterexample)
    \o ",\"gas_used\":"
    \o (IF IsSome(r.gas_used) THEN ToString(Unwrap(r.gas_used)) ELSE "null")
    \o ",\"logs\":["
    \o JsonJoin([k \in 1 .. Len(r.logs) |-> JsonString(r.logs[k])]) \o "]}"

JsonTests(tests) ==
    "{" \o JsonJoin([k \in 1 .. Len(tests) |->
                       JsonString(tests[k].name) \o ":" \o JsonResult(tests[k].result)])
    \o "}"

ToJson(rs) ==
    "{" \o JsonJoin([k \in 1 .. Len(rs) |->
                       JsonString(rs[k].name) \o ":" \o JsonTests(rs[k].tests)])
    \o "}"

JsonLines(rs) == <<Line("json", "", "", ToJson(rs))>>

FinalExitCode_NoReset(code, allow) == code

\* if allow_failure { exit_code = 0 }
FinalExitCode(code, allow) == IF allow THEN 0 ELSE code

Init ==
    /\ evm_type \in {"Sputnik", "EvmOdin"}
    /\ fork_url \in ForkUrls
    /\ json \in BOOLEAN
    /\ verbosity \in Verbosities
    /\ allow_failure \in BOOLEAN
    /\ pc = "match_evm"
    /\ fetches = 0
    /\ vicinity = None
    /\ backend = None
    /\ evm = None
    /\ exit_code = 0
    /\ results = None
    /\ i = 0
    /\ j = 0
    /\ stdout = <<>>
    /\ status = None

\* main returns Err: the runtime reports it and the process ends with status 1
MainErr ==
    /\ pc' = "exited"
    /\ status' = Some(MainErrStatus)

\* ------------------------------------------------- main: Sputnik branch
\* fork_url is None: the vicinity comes from the environment options
VicinityFromEnv ==
    /\ pc = "match_evm" /\ evm_type = "Sputnik"
    /\ fork_url = None
    /\ vicinity' = Some("env")
    /\ pc' = "new_backend"
    /\ UNCHANGED <<opts, fetches, backend, evm, rep, status>>

\* Provider::try_from(url.as_str())? fails
VicinityBadUrl ==
    /\ pc = "match_evm" /\ evm_type = "Sputnik"
    /\ IsSome(fork_url) /\ ~UrlParses(Unwrap(fork_url))
    /\ MainErr
    /\ UNCHANGED <<opts, boot, rep>>

\* rt.block_on(vicinity(&provider, fork_block_number))? succeeds
VicinityFetched ==
    /\ pc = "match_evm" /\ evm_type = "Sputnik"
    /\ IsSome(fork_url) /\ UrlParses(Unwrap(fork_url))
    /\ fetches' = fetches + 1
    /\ vicinity' = Some("remote")
    /\ pc' = "new_backend"
    /\ UNCHANGED <<opts, backend, evm, rep, status>>

VicinityFetchFailed_Swallowed ==
    /\ pc = "match_evm" /\ evm_type = "Sputnik"
    /\ IsSome(fork_url) /\ UrlParses(Unwrap(fork_url))
    /\ fetches' = fetches + 1
    /\ pc' = "new_backend"
    /\ UNCHANGED <<opts, vicinity, backend, evm, rep, status>>

\* rt.block_on(vicinity(&provider, fork_block_number))? fails
VicinityFetchFailed ==
    /\ pc = "match_evm" /\ evm_type = "Sputnik"
    /\ IsSome(fork_url) /\ UrlParses(Unwrap(fork_url))
    /\ fetches' = fetches + 1
    /\ MainErr
    /\ UNCHANGED <<opts, vicinity, backend, evm, rep>>

\* MemoryBackend::new(&vicinity, Default::default())
NewBackend ==
    /\ pc = "new_backend"
    /\ backend' = Some(EmptyState)
    /\ pc' = "faucet"
    /\ UNCHANGED <<opts, fetches, vicinity, evm, rep, status>>

\* max out the balance of the faucet
MaxOutFaucet ==
    /\ pc = "faucet"
    /\ backend' = Some(FundFaucet(Unwrap(backend)))
    /\ pc' = "box_backend"
    /\ UNCHANGED <<opts, fetches, vicinity, evm, rep, status>>

\* the state the fork decorator is given as its snapshot
InitState(state) == state

\* the Box<dyn Backend> and the executor built over it
BoxBackend ==
    /\ pc = "box_backend"
    /\ evm' = Some([kind |-> "Sputnik",
                    forked |-> IsSome(fork_url),
                    state |-> Unwrap(backend),
                    init_state |-> IF IsSome(fork_url)
                                   THEN Some(InitState(Unwrap(backend)))
                                   ELSE None])
    /\ pc' = "test"
    /\ UNCHANGED <<opts, fetches, vicinity, backend, rep, status>>

\* ------------------------------------------------- main: EvmOdin branch
EvmOdinNew ==
    /\ pc = "match_evm" /\ evm_type = "EvmOdin"
    /\ \E host \in EvmOdinHosts :
         evm' = Some([kind |-> "EvmOdin", forked |-> FALSE,
                      state |-> host, init_state |-> None])
    /\ pc' = "test"
    /\ UNCHANGED <<opts, fetches, vicinity, backend, rep, status>>

\* ------------------------------------------------------------- test()
Results == Unwrap(results)
Contract == Results[i + 1]

\* builder.build(project, evm)?; exit_code = 0; runner.test(pattern)?
RunnerTest ==
    /\ pc = "test"
    /\ \E rs \in ResultSets : results' = Some(rs)
    /\ exit_code' = 0
    /\ pc' = "report"
    /\ UNCHANGED <<opts, boot, i, j, stdout, status>>

\* builder.build(project, evm)? or runner.test(pattern)? fails
RunnerFailed ==
    /\ pc = "test"
    /\ MainErr
    /\ UNCHANGED <<opts, boot, rep>>

\* if json { println!("{}", serde_json::to_string(&results)?) }
PrintJson ==
    /\ pc = "report" /\ json
    /\ stdout' = stdout \o JsonLines(Results)
    /\ pc' = "finish"
    /\ UNCHANGED <<opts, boot, exit_code, results, i, j, status>>

\* the head of one iteration of `for (i, (contract_name, tests)) in results.iter().enumerate()`
NextContract ==
    /\ pc = "report" /\ ~json
    /\ i < Len(Results)
    /\ stdout' = stdout \o HeaderLines(i, Contract.name, Contract.tests)
    /\ j' = 0
    /\ pc' = "tests"
    /\ UNCHANGED <<opts, boot, exit_code, results, i, status>>

\* one iteration of the first `for (name, result) in tests`
TestLine ==
    /\ pc = "tests"
    /\ j < Len(Contract.tests)
    /\ LET t == Contract.tests[j + 1]
       IN /\ exit_code' = ExitCodeAfter(exit_code, t.result)
          /\ stdout' = stdout \o SummaryLines(Contract.name, t.name, t.result)
    /\ j' = j + 1
    /\ UNCHANGED <<opts, pc, boot, results, i, status>>

\* the `if verbosity > 1` block that ends the iteration for one contract
Verbose ==
    /\ pc = "tests"
    /\ j = Len(Contract.tests)
    /\ stdout' = stdout \o VerboseLines(verbosity, Contract.name, Contract.tests)
    /\ i' = i + 1
    /\ pc' = "report"
    /\ UNCHANGED <<opts, boot, exit_code, results, j, status>>

ReportDone ==
    \/ pc = "finish"
    \/ pc = "report" /\ ~json /\ i = Len(Results)

\* if allow_failure { exit_code = 0 }  std::process::exit(exit_code)
Exit ==
    /\ ReportDone
    /\ exit_code' = FinalExitCode(exit_code, allow_failure)
    /\ status' = Some(ExitStatus(exit_code'))
    /\ pc' = "exited"
    /\ UNCHANGED <<opts, boot, results, i, j, stdout>>

Next ==
    \/ VicinityFromEnv
    \/ VicinityBadUrl
    \/ VicinityFetched
    \/ VicinityFetchFailed
    \/ NewBackend
    \/ MaxOutFaucet
    \/ BoxBackend
    \/ EvmOdinNew
    \/ RunnerTest
    \/ RunnerFailed
    \/ PrintJson
    \/ NextContract
    \/ TestLine
    \/ Verbose
    \/ Exit

Spec == Init /\ [][Next]_vars

\* ---------------------------------------------------------------- helpers
\* test() has reported and called std::process::exit
Finished == pc = "exited" /\ IsSome(results)

ResultsOf(rs) == UNION {{rs[k].tests[m].result : m \in 1 .. Len(rs[k].tests)} : k \in 1 .. Len(rs)}

AnyFailed(rs) == \E r \in ResultsOf(rs) : ~r.success
AllPassed(rs) == \A r \in ResultsOf(rs) : r.success

\* the positions of the output lines of a kind
LinesOf(kind) == {k \in 1 .. Len(stdout) : stdout[k].kind = kind}

\* the test of the result set that an output line is about
TestOfLine(l) ==
    LET e == CHOOSE e \in RangeOf(Results) : e.name = l.c
    IN CHOOSE t \in RangeOf(e.tests) : t.name = l.t

\* ------------------------------------------------------------------- C1
\* C1: whenever the result set holds a failed test and allow-failure is not
\* set, the process ends with a nonzero status, in the serialized and in the
\* human-readable output mode alike.
C1_FailureExitsNonzero ==
    (Finished /\ AnyFailed(Results) /\ ~allow_failure) => Unwrap(status) # 0

\* ------------------------------------------------------------------- C2
\* C2: once reporting has completed the process ends with status 0 if every
\* test passed or if allow-failure is set; the allow-failure reset is applied
\* only after all reporting: while the report is being printed a printed
\* failure keeps the exit code at the failure value even under allow-failure.
C2_SuccessStatus ==
    /\ (Finished /\ (AllPassed(Results) \/ allow_failure)) => Unwrap(status) = 0
    /\ (pc \in {"report", "tests"} /\ \E k \in LinesOf("summary") : ~TestOfLine(stdout[k]).result.success)
          => exit_code # 0

\* a human-mode run with a failed test that ends with status 0 through allow-failure
C2_Witness ==
    /\ Finished /\ ~json /\ allow_failure
    /\ AnyFailed(Results)
    /\ Unwrap(status) = 0

\* ------------------------------------------------------------------- C3
\* the ledgers the faucet step can be applied to
LedgerStates ==
    {EmptyState}
    \cup {[a \in {FAUCET_ACCOUNT} |-> [balance |-> b]] : b \in 0 .. U256_MAX}
    \cup {[a \in {FAUCET_ACCOUNT, "sender"} |-> [balance |-> b]] : b \in {1}}

\* C3: the backend handed to the Sputnik executor holds the maximum balance
\* for the faucet, without and with a fork; with a fork the snapshot the
\* decorator was given holds it too; the faucet step overwrites whatever
\* balance a ledger holds for the faucet and leaves every other account alone.
C3_FaucetMaxAfterBootstrap ==
    /\ (IsSome(evm) /\ Unwrap(evm).kind = "Sputnik") =>
          /\ BalanceOf(Unwrap(evm).state, FAUCET_ACCOUNT) = U256_MAX
          /\ Unwrap(evm).forked = IsSome(fork_url)
          /\ Unwrap(evm).forked =>
                /\ IsSome(Unwrap(evm).init_state)
                /\ BalanceOf(Unwrap(Unwrap(evm).init_state), FAUCET_ACCOUNT) = U256_MAX
    /\ (pc = "box_backend") =>
          \A st \in LedgerStates :
             /\ BalanceOf(FundFaucet(st), FAUCET_ACCOUNT) = U256_MAX
             /\ \A a \in DOMAIN st \ {FAUCET_ACCOUNT} : FundFaucet(st)[a] = st[a]

\* a forked Sputnik bootstrap whose snapshot holds the funded faucet
C3_Witness ==
    /\ IsSome(evm) /\ Unwrap(evm).kind = "Sputnik" /\ Unwrap(evm).forked
    /\ IsSome(Unwrap(evm).init_state)
    /\ FAUCET_ACCOUNT \in DOMAIN Unwrap(Unwrap(evm).init_state)
    /\ fetches = 1

\* ------------------------------------------------------------------- C4
\* C4: whenever the tests are about to run or have run, whichever interpreter
\* was chosen, the faucet of the execution environment holds the maximum
\* balance.
C4_FaucetFundedBeforeTests ==
    (pc \in {"test", "report", "tests", "finish"} \/ Finished) =>
        /\ IsSome(evm)
        /\ BalanceOf(Unwrap(evm).state, FAUCET_ACCOUNT) = U256_MAX

\* ------------------------------------------------------------------- C5
\* the vicinity fetch was attempted and gave no vicinity
FetchFailed == fetches >= 1 /\ vicinity = None

\* the status with which the process ends after a failed test
FailingTestStatus == ExitStatus(FinalExitCode(ExitCodeAfter(0, FailResult), FALSE))

\* C5 as stated: a failed vicinity fetch ends the invocation at once, with no
\* ledger, no test run, no report, and with the status a failing test produces.
C5_FetchFailureSameStatus ==
    FetchFailed =>
        /\ pc = "exited" /\ fetches = 1
        /\ backend = None /\ evm = None /\ results = None /\ stdout = <<>>
        /\ Unwrap(status) = FailingTestStatus

\* C5 as amended: a failed vicinity fetch ends the invocation at once, after a
\* single attempt, with no ledger, no test run and no report; the status is
\* the nonzero status of an error returned from main, which is not the status
\* a failing test produces.
C5_FetchFailureAborts ==
    /\ fetches <= 1
    /\ FetchFailed =>
        /\ pc = "exited"
        /\ backend = None /\ evm = None /\ results = None /\ stdout = <<>>
        /\ Unwrap(status) = MainErrStatus
        /\ Unwrap(status) # 0
        /\ Unwrap(status) # FailingTestStatus

\* the invocation has ended on a failed vicinity fetch
C5_Witness ==
    /\ FetchFailed /\ pc = "exited"
    /\ fork_url = Some(GoodUrl)
    /\ IsSome(status)

\* ------------------------------------------------------------------- C6
\* the marker the claim gives for a test result
C6_Marker(r) ==
    IF r.success THEN "[PASS]"
    ELSE IF r.reason # None /\ r.counterexample # None
      THEN "[FAIL. Reason: " \o r.reason[1] \o ". Counterexample: " \o r.counterexample[1] \o "]"
    ELSE IF r.reason # None /\ r.counterexample = None
      THEN "[FAIL. Reason: " \o r.reason[1] \o "]"
    ELSE IF r.reason = None /\ r.counterexample # None
      THEN "[FAIL. Counterexample: " \o r.counterexample[1] \o "]"
    ELSE "[FAIL]"

\* C6: every summary line of the finished human report starts with the marker that the
\* presence of reason and counterexample determines (green [PASS] for a
\* passing test whatever those fields hold), followed by the test name and
\* the gas.
C6_FailMarker ==
    (Finished /\ ~json) => \A k \in LinesOf("summary") :
        LET t == TestOfLine(stdout[k])
        IN stdout[k].text =
             (IF t.result.success THEN Green ELSE Red) \o C6_Marker(t.result) \o Reset
             \o " " \o t.name \o " (gas: " \o GasText(t.result) \o ")"

\* the report holds the line of a failed test with a counterexample and no reason
C6_Witness ==
    Finished /\ ~json /\ \E k \in LinesOf("summary") :
        LET r == TestOfLine(stdout[k]).result
        IN ~r.success /\ r.reason = None /\ r.counterexample # None

\* ------------------------------------------------------------------- C7
C7_HeaderText(name, n) ==
    "Running " \o ToString(n) \o " " \o (IF n = 1 THEN "test" ELSE "tests") \o " for " \o name

\* the positions of the header lines of a contract
HeadersOf(name) == {k \in LinesOf("header") : stdout[k].c = name}

\* the header of a contract is the one line the claim describes, printed
\* before every test line of the contract
C7_OneHeader(e) ==
    /\ Cardinality(HeadersOf(e.name)) = 1
    /\ \A k \in HeadersOf(e.name) :
          /\ stdout[k].text = C7_HeaderText(e.name, Len(e.tests))
          /\ \A m \in 1 .. Len(stdout) :
                (stdout[m].c = e.name /\ stdout[m].kind \in {"summary", "detail", "log"}) => k < m

\* C7 as stated: the finished human report holds exactly one header line for
\* every contract of the result set, whatever its number of tests.
C7_HeaderForEveryContract ==
    (Finished /\ ~json) => \A e \in RangeOf(Results) : C7_OneHeader(e)

\* C7 as amended: the finished human report holds exactly one header line for
\* every contract that has at least one test, before the contract's test
\* lines, with "test" for one test and "tests" for more; a contract with no
\* test gets no header line.
C7_HeaderForNonEmptyContract ==
    (Finished /\ ~json) =>
        \A e \in RangeOf(Results) :
            IF Len(e.tests) >= 1 THEN C7_OneHeader(e) ELSE HeadersOf(e.name) = {}

\* a finished human report over a contract with one test and one with several
C7_Witness ==
    /\ Finished /\ ~json
    /\ \E e \in RangeOf(Results) : Len(e.tests) = 1 /\ HeadersOf(e.name) # {}
    /\ \E e \in RangeOf(Results) : Len(e.tests) > 1 /\ HeadersOf(e.name) # {}

\* ------------------------------------------------------------------- C8
\* the place of a name in the order of discovery
IndexIn(names, n) == CHOOSE k \in DOMAIN names : names[k] = n

\* C8: the summary lines of the human report follow the order of discovery:
\* contracts in the order found, and the tests of a contract in the order
\* found.
C8_DiscoveryOrder ==
    \A k, m \in LinesOf("summary") :
        k < m =>
            \/ IndexIn(ContractNames, stdout[k].c) < IndexIn(ContractNames, stdout[m].c)
            \/ /\ stdout[k].c = stdout[m].c
               /\ IndexIn(TestNames, stdout[k].t) < IndexIn(TestNames, stdout[m].t)

\* ------------------------------------------------------------------- C9
RECURSIVE SummaryOfAll(_, _)
SummaryOfAll(c, tests) ==
    IF tests = <<>> THEN <<>>
    ELSE <<Line("summary", c, Head(tests).name, SummaryText(Head(tests).name, Head(tests).result))>>
           \o SummaryOfAll(c, Tail(tests))

RECURSIVE HumanReport(_, _, _)
HumanReport(rs, k, v) ==
    IF k > Len(rs) THEN <<>>
    ELSE HeaderLines(k - 1, rs[k].name, rs[k].tests)
           \o SummaryOfAll(rs[k].name, rs[k].tests)
           \o VerboseLines(v, rs[k].name, rs[k].tests)
           \o HumanReport(rs, k + 1, v)

\* the report as a function of the result set, the mode and the verbosity
C9_Report(rs, mode, v) == IF mode THEN JsonLines(rs) ELSE HumanReport(rs, 1, v)

\* C9: the finished report is a function of the result set, the output mode
\* and the verbosity alone, the same with and without allow-failure; in
\* human mode every failed test has its red FAIL line, in machine mode the
\* document is the serialization of the whole result set.
C9_ReportIgnoresAllowFailure ==
    Finished =>
        /\ stdout = C9_Report(Results, json, verbosity)
        /\ ~json =>
              \A e \in RangeOf(Results) : \A t \in RangeOf(e.tests) :
                 ~t.result.success =>
                    \E k \in LinesOf("summary") :
                       /\ stdout[k].c = e.name /\ stdout[k].t = t.name
                       /\ stdout[k].text = Red \o C6_Marker(t.result) \o Reset \o " "
                             \o t.name \o " (gas: " \o GasText(t.result) \o ")"
        /\ json => Len(stdout) = 1 /\ stdout[1].text = ToJson(Results)

\* a finished human report of a failed test under allow-failure
C9_Witness ==
    /\ Finished /\ allow_failure /\ ~json
    /\ AnyFailed(Results)
    /\ LinesOf("summary") # {}

\* ------------------------------------------------------------------ C10
\* the lines of the detail block of one test, in the order printed
BlockOf(c, t) ==
    SelectSeq(stdout, LAMBDA l : l.c = c /\ l.t = t /\ l.kind \in {"detail", "log"})

C10_Block(c, t) ==
    <<(IF t.result.success THEN "Success" ELSE "Failure") \o ": " \o t.name>>
    \o [k \in 1 .. Len(t.result.logs) |-> "  " \o t.result.logs[k]]

\* C10: with verbosity at most 1 no detail or log line is printed; in the
\* finished human report with verbosity above 1 the detail blocks of a
\* contract come after all summary lines of that contract, the lines of a contract are contiguous (nothing of
\* another contract lies between them), and the block of a test is its
\* Success/Failure line followed by its logs in emission order.
C10_DetailAfterSummaries ==
    /\ ~(verbosity > 1) => LinesOf("detail") \cup LinesOf("log") = {}
    /\ (Finished /\ ~json /\ verbosity > 1) =>
          /\ \A k \in LinesOf("detail") \cup LinesOf("log") :
                \A m \in LinesOf("summary") : stdout[m].c = stdout[k].c => m < k
          /\ \A e \in RangeOf(Results) :
                /\ Cardinality({k \in LinesOf("detail") : stdout[k].c = e.name}) = Len(e.tests)
                /\ Cardinality({m \in LinesOf("summary") : stdout[m].c = e.name}) = Len(e.tests)
          /\ \A k \in 1 .. (Len(stdout) - 1) :
                stdout[k + 1].c # stdout[k].c =>
                    \A n \in (k + 1) .. Len(stdout) : stdout[n].c # stdout[k].c
          /\ \A e \in RangeOf(Results) : \A t \in RangeOf(e.tests) :
                [k \in 1 .. Len(BlockOf(e.name, t.name)) |-> BlockOf(e.name, t.name)[k].text]
                   = C10_Block(e.name, t)

\* a finished verbose report of a contract with two tests, one with two logs
C10_Witness ==
    /\ Finished /\ ~json /\ verbosity > 1
    /\ \E e \in RangeOf(Results) :
          /\ Len(e.tests) >= 2
          /\ \E t \in RangeOf(e.tests) : Len(BlockOf(e.name, t.name)) >= 3
====
